---- MODULE Spec2Model ----
(***************************************************************************)
(* Model of the date/time conversion layer of pyutils,                     *)
(* src/time_handling/time_formatters.py.                                   *)
(*                                                                         *)
(* One call of a public entry point runs at a time.  `pc` is the position  *)
(* inside the running function, `args` its arguments, `locals` its local   *)
(* variables, `outcome` what the caller receives (a returned value or a    *)
(* raised exception) and `calls` the dispatch-table entries and external   *)
(* helpers invoked so far, in order.                                       *)
(*                                                                         *)
(* Numbers that may be Python floats (epoch offsets, seconds) are held in  *)
(* HALVES: the integer n stands for n/2, so that whole values and ties of  *)
(* round() both occur.  A whole value stands for a Python int.             *)
(***************************************************************************)
EXTENDS Integers, Sequences, FiniteSets, TLC

VARIABLES pc, fn, args, locals, outcome, calls, validated

vars == <<pc, fn, args, locals, outcome, calls, validated>>

(***************************************************************************)
(* Bounds of the model.                                                    *)
(***************************************************************************)
\* Epoch offsets given to parse_float_time: -MaxT..MaxT halves.
MaxT == 3
\* Offsets given to _format_arbitrary_time reach MaxHours hours.
MaxHours == 25
\* frac_precision is drawn from -PrecSlack .. 9 + PrecSlack, and None.
\* Most columns and rows of a table.
MaxCols == 3
MaxRows == 2
\* Longest array given to calc_all_unique_pairs.
MaxArrayLen == 4
\* Longest bytes value encoded.
MaxBytesLen == 2
\* Most objects under the path given to reorder_objs, and most answers typed.
MaxObjs == 3
MaxAnswers == 2
PrecSlack == 2

(***************************************************************************)
(* Python values.                                                          *)
(***************************************************************************)
PyNone == [t |-> "None"]
PyInt(n) == [t |-> "int", v |-> n]
PyStr(s) == [t |-> "str", v |-> s]

\* Truth value of an object, as `not x` / `if x` compute it.
Truthy(x) ==
    CASE x.t = "None" -> FALSE
      [] x.t = "str"  -> x.v # ""
      [] x.t = "int"  -> x.v # 0

Return(v) == [kind |-> "return", value |-> v]
Raise(exc, msg) == [kind |-> "raise", exc |-> exc, msg |-> msg]
Pending == [kind |-> "none"]

Raised(o) == o.kind = "raise"
RaisedExc(o, exc) == o.kind = "raise" /\ o.exc = exc

\* The result of a helper: its outcome and the entries it invoked.
Res(o, cs) == [out |-> o, calls |-> cs]

Entry(table, key) == [table |-> table, key |-> key]

(***************************************************************************)
(* Registries.                                                             *)
(***************************************************************************)
numpy_unit_list == {"Y", "M", "D", "h", "m", "s", "ms", "us", "ns"}
pandas_unit_list == {"D", "s", "ms", "us", "ns"}
unit_factor_keys == {"D", "s", "ms", "us", "ns"}

_float_class_list == {"np.float16", "np.float32", "f", "np.float64", "float", "d", "np.float128"}
_int_class_list == {"np.int8", "np.int16", "i", "np.float32", "int", "np.int64"}

\* Number of parameters of each lambda of floated_time_parsing_dict.
floated_time_parsing_dict ==
    [datetime |-> 2, time |-> 1, pandas |-> 2, numpy |-> 2, arrow |-> 2]

\* Number of parameters of each lambda of time_str_parsing_dict.
time_str_parsing_dict ==
    [datetime |-> 2, dateutil |-> 2, pandas |-> 3, numpy |-> 3, arrow |-> 2]

(***************************************************************************)
(* Input validation streamliners.                                          *)
(***************************************************************************)
_validate_option(explanation, option, allowed_options) ==
    IF option \notin allowed_options
    THEN Raise("ValueError", explanation)
    ELSE Return(PyNone)

min_prec == 0
max_prec == 9
nano_prec == 7

\* `a <= x` for an x that may be None: ordering None against an int raises.
CmpRaises(x) == x.t = "None"

\* _validate_precision with the nanosecond range starting one too late.
_validate_precision_late(frac_precision, option) ==
    IF frac_precision.t # "None"
       /\ ~(min_prec <= frac_precision.v /\ frac_precision.v <= max_prec)
    THEN Raise("ValueError", "Fractional precision must be between min and max")
    ELSE IF CmpRaises(frac_precision)
    THEN Raise("TypeError", "'<=' not supported between 'int' and 'NoneType'")
    ELSE IF (nano_prec < frac_precision.v /\ frac_precision.v <= max_prec)
            /\ option # "pandas"
    THEN Raise("ValueError", "Only option 'pandas' supports precision")
    ELSE Return(PyNone)

_validate_precision(frac_precision, option) ==
    IF frac_precision.t # "None"
       /\ ~(min_prec <= frac_precision.v /\ frac_precision.v <= max_prec)
    THEN Raise("ValueError", "Fractional precision must be between min and max")
    ELSE IF CmpRaises(frac_precision)
    THEN Raise("TypeError", "'<=' not supported between 'int' and 'NoneType'")
    ELSE IF (nano_prec <= frac_precision.v /\ frac_precision.v <= max_prec)
            /\ option # "pandas"
    THEN Raise("ValueError", "Only option 'pandas' supports precision")
    ELSE Return(PyNone)

\* _validate_unit checking each of the two modules against the other's list.
_validate_unit_swapped(unit, module) ==
    IF module = "numpy" /\ unit \notin pandas_unit_list
    THEN Raise("ValueError", "Unsupported date unit for numpy.datetime64 objects")
    ELSE IF module = "pandas" /\ unit \notin numpy_unit_list
    THEN Raise("ValueError", "Unsupported date unit for pandas.Timestamp objects")
    ELSE Return(PyNone)

_validate_unit(unit, module) ==
    IF module = "numpy" /\ unit \notin numpy_unit_list
    THEN Raise("ValueError", "Unsupported date unit for numpy.datetime64 objects")
    ELSE IF module = "pandas" /\ unit \notin pandas_unit_list
    THEN Raise("ValueError", "Unsupported date unit for pandas.Timestamp objects")
    ELSE Return(PyNone)

(***************************************************************************)
(* Date/time objects and texts.  An object keeps the number it was built   *)
(* from (in halves of `unit` since the epoch) and the backend type; a      *)
(* text keeps what it renders and the pattern used.                        *)
(***************************************************************************)
DateObj(type, t, unit) == [t |-> "obj", type |-> type, at |-> t, unit |-> unit]
Text(of, fmt) == [t |-> "text", of |-> of, fmt |-> fmt]

\* round(x) for x = n/2: the nearest integer, ties to the even one.
PyRound(n) ==
    LET f == n \div 2
    IN  IF n % 2 = 0 THEN f
        ELSE IF f % 2 = 0 THEN f ELSE f + 1

IsWhole(n) == n % 2 = 0

\* dt_obj.strftime(dt_fmt_str)
strftime(dt_obj, dt_fmt_str) ==
    IF dt_fmt_str.t # "str"
    THEN Raise("TypeError", "strftime() argument 1 must be str")
    ELSE Return(Text(dt_obj, dt_fmt_str.v))

\* The body of floated_time_parsing_dict[module], given (floated_time, unit).
FloatedTimeEntry(module, floated_time, unit) ==
    CASE module = "datetime" -> Return(DateObj("datetime", floated_time, "s"))
      [] module = "pandas"   -> Return(DateObj("timestamp", floated_time, unit))
      [] module = "numpy"    ->
            IF IsWhole(floated_time)
            THEN Return(DateObj("datetime64", floated_time, unit))
            ELSE Raise("ValueError", "Could not convert object to NumPy datetime")
      [] module = "arrow"    -> Return(DateObj("arrow", floated_time, "s"))
      [] OTHER               -> Return(DateObj("datetime", floated_time, "s"))

\* Calling a lambda of `arity` parameters with `given` positional arguments.
BindsLambda(arity, given) == arity = given

_float_time_parser(floated_time, module, unit) ==
    LET vm == _validate_option("Object type conversion", module,
                               DOMAIN floated_time_parsing_dict)
        vu == _validate_unit(unit, module)
    IN  IF Raised(vm) THEN Res(vm, <<>>)
        ELSE IF Raised(vu) THEN Res(vu, <<>>)
        ELSE IF ~BindsLambda(floated_time_parsing_dict[module], 2)
        THEN Res(Raise("TypeError", "<lambda>() takes 1 positional argument but 2 were given"),
                 <<Entry("floated_time_parsing_dict", module)>>)
        ELSE Res(FloatedTimeEntry(module, floated_time, unit),
                 <<Entry("floated_time_parsing_dict", module)>>)

\* TimeComponents with the hours not reduced modulo 24.
TimeComponents_nowrap(floated_time) ==
    LET q == floated_time \div (2 * 3600)
        r == floated_time % (2 * 3600)
    IN  [days |-> q \div 24, hours |-> q,
         minutes |-> r \div (2 * 60), seconds |-> r % (2 * 60)]

\* days, hours, minutes and seconds (halves) as lines 394-395 compute them.
TimeComponents(floated_time) ==
    LET q == floated_time \div (2 * 3600)
        r == floated_time % (2 * 3600)
    IN  [days |-> q \div 24, hours |-> q % 24,
         minutes |-> r \div (2 * 60), seconds |-> r % (2 * 60)]

\* round(seconds, ndigits) for seconds in halves and ndigits >= 0.
RoundSeconds(seconds, ndigits) ==
    IF ndigits = 0 THEN 2 * PyRound(seconds) ELSE seconds

\* The local variables of _format_arbitrary_time when it reaches line 404.
ArbitraryLocals(floated_time, frac_precision) ==
    LET c == TimeComponents(floated_time)
        p == IF frac_precision.v > 6 THEN 6 ELSE frac_precision.v
    IN  [c EXCEPT !.seconds = RoundSeconds(c.seconds, p)]

_format_arbitrary_time(floated_time, frac_precision) ==
    IF frac_precision.t = "None"
    THEN Res(Raise("TypeError", "'>' not supported between 'NoneType' and 'int'"), <<>>)
    ELSE LET l == ArbitraryLocals(floated_time, frac_precision)
         IN  IF l.days > 0
             THEN Res(Return(Text(<<l.days, l.hours, l.minutes, l.seconds>>,
                                  "{} days {} hours {} minutes {} seconds")),
                      <<Entry("format_string", "0")>>)
             ELSE Res(Return(Text(<<l.hours, l.minutes, l.seconds>>,
                                  "{} hours {} minutes {} seconds")),
                      <<Entry("format_string", "1")>>)

_parse_float_to_string(floated_time, frac_precision, origin, dt_fmt_str, unit, module) ==
    IF origin = "arbitrary"
    THEN _format_arbitrary_time(floated_time, frac_precision)
    ELSE IF origin = "unix"
    THEN IF frac_precision.t # "None"
         THEN IF frac_precision.v <= 6
              THEN LET dt_seconds == PyRound(floated_time)
                       p == _float_time_parser(2 * dt_seconds, module, unit)
                   IN  IF Raised(p.out) THEN p
                       ELSE Res(strftime(p.out.value, dt_fmt_str), p.calls)
              ELSE IF nano_prec <= frac_precision.v /\ frac_precision.v <= 9
              THEN Res(Return(Text(DateObj("nano", floated_time, "s"), "ns")),
                       <<Entry("get_nano_datetime", module)>>)
              ELSE Res(Raise("UnboundLocalError", "dt_str"), <<>>)
         ELSE LET p == _float_time_parser(floated_time, module, unit)
              IN  IF Raised(p.out) THEN p
                  ELSE Res(strftime(p.out.value, dt_fmt_str), p.calls)
    ELSE Res(Return(PyNone), <<>>)

(***************************************************************************)
(* parse_time_string.                                                      *)
(***************************************************************************)
\* Whether the text is written in the given pattern.
Conforms(datetime_str, dt_fmt_str) ==
    /\ datetime_str = "1970-01-01 00:00:01"
    /\ dt_fmt_str = "%Y-%m-%d %H:%M:%S"

\* The body of time_str_parsing_dict[module].
TimeStrEntry(module, datetime_str, dt_fmt_str, unit) ==
    CASE module = "datetime" ->
            IF Conforms(datetime_str, dt_fmt_str)
            THEN Return(DateObj("datetime", 2, "s"))
            ELSE Raise("ValueError", "time data does not match format")
      [] module = "dateutil" ->
            Raise("AttributeError", "'str' object has no attribute 'dayfirst'")
      [] module = "pandas" ->
            Raise("ValueError", "cannot specify both format and unit")
      [] module = "arrow" ->
            IF Conforms(datetime_str, dt_fmt_str)
            THEN Return(DateObj("arrow", 2, "s"))
            ELSE Raise("ValueError", "ParserError")
      [] OTHER ->
            Return(DateObj("datetime64", 2, unit))

\* Lines 173-181: the try block of parse_time_string.
ParseTimeStringBody(datetime_str, dt_fmt_str, module, unit) ==
    LET given == IF module = "pandas" THEN 3 ELSE 2
        e == <<Entry("time_str_parsing_dict", module)>>
    IN  IF ~BindsLambda(time_str_parsing_dict[module], given)
        THEN Res(Raise("TypeError", "<lambda>() missing 1 required positional argument"), e)
        ELSE LET r == TimeStrEntry(module, datetime_str, dt_fmt_str, unit)
             IN  IF RaisedExc(r, "ValueError")
                 THEN Res(Raise("ValueError",
                                "The time string does not match the format string provided."), e)
                 ELSE Res(r, e)

(***************************************************************************)
(* datetime_obj_converter.                                                 *)
(***************************************************************************)
\* Number of parameters of each lambda of the conversion tables.
datetime_obj_conversion_dict ==
    [float |-> 2, time |-> 2, pandas |-> 3, numpy |-> 3, arrow |-> 2, str |-> 3]
datetime64_obj_conversion_dict ==
    [float |-> 3, datetime |-> 2, time |-> 2, pandas |-> 2, arrow |-> 2, str |-> 3]
datetime_time_obj_conversion_dict ==
    [float |-> 2, datetime |-> 2, time |-> 2, pandas |-> 2, numpy |-> 2, arrow |-> 2,
     str |-> 3]
timestamp_obj_conversion_dict ==
    [float |-> 2, datetime |-> 3, time |-> 2, numpy |-> 2, arrow |-> 2, str |-> 3]
arrow_obj_conversion_dict ==
    [float |-> 2, datetime |-> 2, time |-> 2, pandas |-> 3, numpy |-> 3, str |-> 3]
time_stt_obj_conversion_dict ==
    [float |-> 2, datetime |-> 2, pandas |-> 2, numpy |-> 2, arrow |-> 2]
_dt_like_obj_conversion_dict ==
    [float |-> 3, pandas |-> 3, str |-> 3]

conversion_opt_dict ==
    [datetime    |-> datetime_obj_conversion_dict,
     datetime64  |-> datetime64_obj_conversion_dict,
     time        |-> datetime_time_obj_conversion_dict,
     timestamp   |-> timestamp_obj_conversion_dict,
     arrow       |-> arrow_obj_conversion_dict,
     struct_time |-> time_stt_obj_conversion_dict,
     dataframe   |-> _dt_like_obj_conversion_dict,
     series      |-> _dt_like_obj_conversion_dict,
     ndarray     |-> _dt_like_obj_conversion_dict]

\* Lines 473-486: the targets the docstring's table marks 'Yes' for each
\* input type, under the keys of the tables (struct_time is 'time',
\* Timestamp is 'pandas', datetime64 is 'numpy').
documented_conversion_options ==
    [datetime    |-> {"float", "datetime", "time", "pandas", "numpy", "arrow", "str"},
     datetime64  |-> {"float", "datetime", "time", "pandas", "arrow", "str"},
     time        |-> {"float", "datetime", "time", "pandas", "numpy", "arrow", "str"},
     timestamp   |-> {"float", "datetime", "time", "numpy", "arrow", "str"},
     arrow       |-> {"float", "datetime", "time", "pandas", "numpy", "str"},
     struct_time |-> {"float", "datetime", "pandas", "numpy", "arrow"},
     dataframe   |-> {"float", "datetime", "str"},
     series      |-> {"float", "datetime", "str"},
     ndarray     |-> {"float", "datetime", "str"}]

\* get_type_str(datetime_obj, lowercase=True): the lower-cased type name.
get_type_str(datetime_obj) == datetime_obj.type

PyFloat(n) == [t |-> "float", v |-> n]
Converted(obj_type, convert_to, obj) ==
    [t |-> "converted", from |-> obj_type, to |-> convert_to, of |-> obj]

\* The body of conversion_opt_dict[obj_type][convert_to] applied to the object.
ConversionEntry(obj_type, convert_to, obj) ==
    IF obj_type = "datetime" /\ convert_to = "float"
    THEN Return(PyFloat(obj.at))
    ELSE Return(Converted(obj_type, convert_to, obj))

\* The names a call of perform_conversion(conversion_dict, obj, *args) may
\* pass by keyword.
perform_conversion_params == {"conversion_dict", "obj"}

ConversionError(convert_to, err) ==
    [kind |-> "raise", exc |-> "RuntimeError", msg |-> "Error during conversion",
     target |-> convert_to, cause |-> err.exc]

\* Lines 505-509, called with the positional arguments star_args after
\* (conversion_dict, obj) and the keyword arguments named in kwargs.
perform_conversion(obj_type, convert_to, obj, star_args, kwargs) ==
    LET e == <<Entry(obj_type, convert_to)>>
    IN  IF kwargs \ perform_conversion_params # {}
        THEN Res(Raise("TypeError",
                       "perform_conversion() got an unexpected keyword argument"), <<>>)
        ELSE IF ~BindsLambda(conversion_opt_dict[obj_type][convert_to], 1 + Len(star_args))
        THEN Res(ConversionError(convert_to,
                     Raise("TypeError", "<lambda>() missing required positional argument")), e)
        ELSE LET r == ConversionEntry(obj_type, convert_to, obj)
             IN  IF Raised(r) THEN Res(ConversionError(convert_to, r), e) ELSE Res(r, e)

\* The keyword arguments of the call at lines 532-534.
perform_call_kwargs == {"unit", "float_class", "int_class", "dt_fmt_str"}

(***************************************************************************)
(* _total_time_complex_data.  A Series is one column of cells, a DataFrame *)
(* a sequence of named columns.  Objects live in a heap: the caller's      *)
(* object is heap.in, and a name of the function holds a reference.        *)
(***************************************************************************)
Timestamp64(n) == [t |-> "datetime64", at |-> n]
Product(n, unit_factor) == [t |-> "product", of |-> n, by |-> unit_factor]

Series(cells) == [t |-> "Series", cells |-> cells]
Column(name, cells) == [name |-> name, cells |-> cells]
DataFrame(cols) == [t |-> "DataFrame", cols |-> cols]
NdArray(cells) == [t |-> "ndarray", cells |-> cells]

Range(s) == {s[i] : i \in DOMAIN s}

\* cells.astype(int_class): datetime64 cells become their integer value; a
\* text cell is an invalid literal for int() and a missing cell is no
\* argument for int().
AsType(cells, int_class) ==
    IF PyNone \in Range(cells)
    THEN Raise("TypeError", "int() argument must be a string or a real number, not 'NoneType'")
    ELSE IF \E c \in Range(cells) : c.t = "str"
    THEN Raise("ValueError", "invalid literal for int() with base 10")
    ELSE Return([i \in DOMAIN cells |-> PyInt(cells[i].at)])

\* cells.astype(int_class) * unit_factor
TotalTime(cells, int_class, unit_factor) ==
    LET r == AsType(cells, int_class)
    IN  IF Raised(r)
        THEN r
        ELSE Return([i \in DOMAIN r.value |-> Product(r.value[i].v, unit_factor)])

\* datetime_obj.copy() handing back the object itself.
copy_by_reference(heap, ref) == [ref |-> ref, heap |-> heap]

\* Line 624: datetime_obj.copy() allocates a new object with the same content.
copy(heap, ref) == [ref |-> "aux", heap |-> [in |-> heap.in, aux |-> heap[ref]]]

\* The Series branch returning the column as it was when the conversion fails.
SeriesBranch_skip(series, int_class, unit_factor) ==
    LET r == TotalTime(series.cells, int_class, unit_factor)
    IN  IF Raised(r) THEN Return(series) ELSE Return(Series(r.value))

\* Lines 626-631: the Series branch.
SeriesBranch(series, int_class, unit_factor) ==
    LET r == TotalTime(series.cells, int_class, unit_factor)
    IN  IF Raised(r)
        THEN Raise("RuntimeError", "Error in '_total_time_complex_data' method for 'Series' type object")
        ELSE Return(Series(r.value))

\* dt_obj_aux[col]
GetColumn(frame, name) ==
    (CHOOSE c \in Range(frame.cols) : c.name = name).cells

\* dt_obj_aux[col] = cells
SetColumn(frame, name, cells) ==
    DataFrame([i \in DOMAIN frame.cols |->
                  IF frame.cols[i].name = name THEN Column(name, cells)
                  ELSE frame.cols[i]])

\* One iteration of the loop skipping the column on any exception.
DataFrameColumn_catch_all(heap, ref, name, int_class, unit_factor) ==
    LET r == TotalTime(GetColumn(heap[ref], name), int_class, unit_factor)
    IN  IF Raised(r)
        THEN [heap |-> heap, out |-> Pending]
        ELSE [heap |-> [heap EXCEPT ![ref] = SetColumn(heap[ref], name, r.value)],
              out |-> Pending]

\* Lines 636-639 inside the handler of lines 641-643: one iteration of the
\* loop over the columns.
DataFrameColumn(heap, ref, name, int_class, unit_factor) ==
    LET r == TotalTime(GetColumn(heap[ref], name), int_class, unit_factor)
    IN  IF RaisedExc(r, "ValueError")
        THEN [heap |-> heap, out |-> Pending]
        ELSE IF Raised(r)
        THEN [heap |-> heap,
              out |-> Raise("RuntimeError",
                            "Error in '_total_time_complex_data' method for 'DataFrame' type object")]
        ELSE [heap |-> [heap EXCEPT ![ref] = SetColumn(heap[ref], name, r.value)],
              out |-> Pending]

(***************************************************************************)
(* Timezone information and the bodies of the conversions of a datetime.   *)
(***************************************************************************)
\* A datetime.datetime with its tzinfo attribute (None when naive).
ZonedDatetime(at, tzinfo) ==
    [t |-> "obj", type |-> "datetime", at |-> at, unit |-> "us", tzinfo |-> tzinfo]

IsAware(dt_obj) == "tzinfo" \in DOMAIN dt_obj /\ dt_obj.tzinfo # PyNone

\* Lines 662-665.
_tzinfo_remover(dt_obj) ==
    IF "tzinfo" \in DOMAIN dt_obj
    THEN [dt_obj EXCEPT !.tzinfo = PyNone]
    ELSE dt_obj

\* An operation of a backend library and the value it is computed on.
BackendOp(name, dt_obj) == [op |-> name, on |-> dt_obj]

\* Number of required parameters of the helpers.
helper_params == [_to_string |-> 3, _to_float |-> 3, _to_datetime |-> 2]

MissingArgument(helper) ==
    Raise("TypeError", "missing required positional argument")

\* Lines 962-969: the body of datetime_obj_conversion_dict[convert_to],
\* with the backend operations it performs.
datetime_obj_conversion_body(convert_to, dt_obj, unit) ==
    CASE convert_to = "float" ->
            Res(Return(PyFloat(dt_obj.at)), <<BackendOp("timestamp", dt_obj)>>)
      [] convert_to = "time" ->
            Res(Return(Converted("datetime", "time", dt_obj)),
                <<BackendOp("timetuple", dt_obj)>>)
      [] convert_to = "pandas" ->
            Res(Return(Converted("datetime", "pandas", _tzinfo_remover(dt_obj))),
                <<BackendOp("pd.to_datetime", _tzinfo_remover(dt_obj))>>)
      [] convert_to = "numpy" ->
            Res(Return(Converted("datetime", "numpy", _tzinfo_remover(dt_obj))),
                <<BackendOp("np.datetime64", _tzinfo_remover(dt_obj))>>)
      [] convert_to = "arrow" ->
            Res(Return(Converted("datetime", "arrow", dt_obj)),
                <<BackendOp("arrow.get", dt_obj)>>)
      [] OTHER ->
            IF BindsLambda(helper_params._to_string, 2)
            THEN Res(Return(Converted("datetime", "str", dt_obj)),
                     <<BackendOp("strftime", dt_obj)>>)
            ELSE Res(MissingArgument("_to_string"), <<>>)

\* Line 883: pd.to_datetime(_to_datetime(dt_obj), unit=unit).
_to_pandas(dt_obj, unit) ==
    IF BindsLambda(helper_params._to_datetime, 1)
    THEN Res(Return(Converted(dt_obj.type, "pandas", dt_obj)),
             <<BackendOp("pd.to_datetime", dt_obj)>>)
    ELSE Res(MissingArgument("_to_datetime"), <<>>)

\* Lines 901-902: np.datetime64(_tzinfo_remover(_to_datetime(dt_obj)), unit).
_to_numpy(dt_obj, unit) ==
    IF BindsLambda(helper_params._to_datetime, 1)
    THEN Res(Return(Converted(dt_obj.type, "numpy", _tzinfo_remover(dt_obj))),
             <<BackendOp("np.datetime64", _tzinfo_remover(dt_obj))>>)
    ELSE Res(MissingArgument("_to_datetime"), <<>>)

(***************************************************************************)
(* _to_string.                                                             *)
(***************************************************************************)
\* hasattr(dt_obj, "strftime"): the scalar date/time classes have it; a
\* numpy.datetime64, a DataFrame, a Series and an ndarray do not.
HasStrftime(dt_obj) ==
    dt_obj.t = "obj" /\ dt_obj.type \in {"datetime", "time", "timestamp", "arrow"}

\* Line 703: np.ndarray(), the class called with no argument.
np_ndarray_call ==
    Raise("TypeError", "ndarray() missing required argument 'shape' (pos 0)")

\* str(x) or x.strftime(dt_fmt_str) of one cell.
CellToString(cell, dt_fmt_str) ==
    IF cell.t = "datetime64" THEN Text(cell, dt_fmt_str.v)
    ELSE IF cell = PyNone THEN PyStr("None")
    ELSE cell

\* Lines 711-726: the Series and DataFrame branches and the default case.
ToStringTabular(dt_obj, dt_fmt_str) ==
    CASE dt_obj.t = "Series" ->
            Return(Series([i \in DOMAIN dt_obj.cells |->
                              CellToString(dt_obj.cells[i], dt_fmt_str)]))
      [] dt_obj.t = "DataFrame" ->
            Return(DataFrame([c \in DOMAIN dt_obj.cols |->
                      Column(dt_obj.cols[c].name,
                             [i \in DOMAIN dt_obj.cols[c].cells |->
                                 CellToString(dt_obj.cols[c].cells[i], dt_fmt_str)])]))
      [] OTHER -> Return(PyStr("str(dt_obj)"))

\* Lines 672-728.
_to_string(dt_obj, unit, dt_fmt_str) ==
    IF HasStrftime(dt_obj)
    THEN strftime(dt_obj, dt_fmt_str)
    ELSE IF dt_obj.t = "obj" /\ dt_obj.type = "datetime64"
    THEN strftime(DateObj("datetime", dt_obj.at, unit), dt_fmt_str)
    ELSE IF Raised(np_ndarray_call)
    THEN np_ndarray_call
    ELSE ToStringTabular(dt_obj, dt_fmt_str)

(***************************************************************************)
(* unify_complex_data of the module of new methods.                        *)
(***************************************************************************)
PdTimestamp(n, unit) == [t |-> "Timestamp", at |-> n, unit |-> unit]
NaT == [t |-> "NaT"]

\* pd.to_datetime(cells, unit=date_unit): numbers and timestamps become
\* Timestamps, a missing value becomes NaT, a text that is no date raises
\* ValueError.
pd_to_datetime(cells, date_unit) ==
    IF \E c \in Range(cells) : c.t = "str"
    THEN Raise("ValueError", "Unknown datetime string format, unable to parse")
    ELSE Return([i \in DOMAIN cells |->
                    IF cells[i] = PyNone THEN NaT
                    ELSE PdTimestamp(cells[i].at, date_unit)])

\* Lines 614-619: one iteration of the loop over the columns; dt_obj_aux is
\* bound to a new copy of the input in every iteration.
UnifyColumn(heap, name, date_unit) ==
    LET c == copy(heap, "in")
        r == pd_to_datetime(GetColumn(c.heap[c.ref], name), date_unit)
    IN  IF RaisedExc(r, "ValueError")
        THEN c.heap
        ELSE [c.heap EXCEPT ![c.ref] = SetColumn(c.heap[c.ref], name, r.value)]

\* Lines 622-629: the Series branch.
UnifySeries(series, date_unit) ==
    LET r == pd_to_datetime(series.cells, date_unit)
    IN  IF RaisedExc(r, "ValueError")
        THEN Return(PyNone)
        ELSE Return(Series(r.value))

(***************************************************************************)
(* arrays_and_lists/maths.py: calc_all_unique_pairs.                       *)
(***************************************************************************)
return_pairs_library_list == <<"python-default", "itertools-comb">>

\* Lines 121-123: [(i, j) for i_aux, i in enumerate(arr) for j in arr[i_aux+1:]],
\* from position i_aux on.
RECURSIVE PythonDefaultPairs(_, _)
PythonDefaultPairs(arr, i_aux) ==
    IF i_aux > Len(arr)
    THEN <<>>
    ELSE [k \in 1..(Len(arr) - i_aux) |-> <<arr[i_aux], arr[i_aux + k]>>]
         \o PythonDefaultPairs(arr, i_aux + 1)

\* itertools.combinations(arr, 2): the index pair after `indices`, found by
\* advancing the rightmost index that is not yet at its last position.
RECURSIVE Combinations2(_, _)
Combinations2(arr, indices) ==
    LET n == Len(arr)
        here == <<arr[indices[1]], arr[indices[2]]>>
    IN  IF indices[2] < n
        THEN <<here>> \o Combinations2(arr, <<indices[1], indices[2] + 1>>)
        ELSE IF indices[1] < n - 1
        THEN <<here>> \o Combinations2(arr, <<indices[1] + 1, indices[1] + 2>>)
        ELSE <<here>>

\* Line 124: list(it.combinations(arr, 2)).
ItertoolsPairs(arr) ==
    IF Len(arr) < 2 THEN <<>> ELSE Combinations2(arr, <<1, 2>>)

\* Lines 120-125.
return_pairs_opt_dict(library, arr) ==
    IF library = return_pairs_library_list[1]
    THEN PythonDefaultPairs(arr, 1)
    ELSE ItertoolsPairs(arr)

\* Lines 80-103, for a one-dimensional array of data type dtype.
calc_all_unique_pairs(array_like, library) ==
    IF array_like.dtype = "O"
    THEN Raise("TypeError", "All elements of the array must be numbers")
    ELSE IF library \notin Range(return_pairs_library_list)
    THEN Raise("ValueError", "Unsupported library.")
    ELSE Return(return_pairs_opt_dict(library, array_like.items))

(***************************************************************************)
(* utilities/json_utils/json_encoding_operations.py.                       *)
(***************************************************************************)
PyBytes(octets) == [t |-> "bytes", octets |-> octets]
PyList(items) == [t |-> "list", items |-> items]
PyDict(items) == [t |-> "dict", items |-> items]

\* list(b) giving each octet as a signed integer.
list_of_bytes_signed(b) ==
    PyList([i \in DOMAIN b.octets |->
               PyInt(IF b.octets[i] > 127 THEN b.octets[i] - 256 ELSE b.octets[i])])

\* Line 15: list(python_object), the octets as integers 0..255.
list_of_bytes(b) == PyList([i \in DOMAIN b.octets |-> PyInt(b.octets[i])])

\* Line 22: bytes(value) of a list of integers; each must be in range(256).
bytes_of(value) ==
    IF value.t # "list"
    THEN Raise("TypeError", "cannot convert object to bytes")
    ELSE IF \E i \in DOMAIN value.items :
               \/ value.items[i].t # "int"
               \/ value.items[i].v \notin 0..255
    THEN Raise("ValueError", "bytes must be in range(0, 256)")
    ELSE Return(PyBytes([i \in DOMAIN value.items |-> value.items[i].v]))

\* Lines 13-17.
to_json(python_object) ==
    IF python_object.t = "bytes"
    THEN Return(PyDict(("__class__" :> PyStr("bytes"))
                       @@ ("__value__" :> list_of_bytes(python_object))))
    ELSE Raise("TypeError", "non serializable")

\* Lines 19-24.
from_json(json_object) ==
    IF "__class__" \in DOMAIN json_object.items
          /\ json_object.items["__class__"] = PyStr("bytes")
    THEN IF "__value__" \in DOMAIN json_object.items
         THEN bytes_of(json_object.items["__value__"])
         ELSE Raise("KeyError", "__value__")
    ELSE Return(json_object)

(***************************************************************************)
(* utilities/file_operations/bulk_rename_index_main.py: reorder_objs.      *)
(***************************************************************************)
PyRange(start, stop) == [t |-> "range", start |-> start, stop |-> stop]

basic_object_types == <<"file", "directory">>

\* The object obj_name with the number obj_num in its name.
Numbered(obj_name, obj_num) == [of |-> obj_name, num |-> obj_num]

RenameCall(obj, new_obj) == [op |-> "rename_objects", obj |-> obj, new_obj |-> new_obj]
InputCall(answer) == [op |-> "input", answer |-> answer]

\* Lines 148-155.
ValidateZeroPadding(zero_padding) ==
    IF zero_padding # PyStr("default")
       /\ (zero_padding.t # "int" \/ zero_padding.v < 1)
    THEN Raise("TypeError", "Argument 'zero_padding' must be an integer equal or greater than 1.")
    ELSE Return(PyNone)

\* The index range check letting the string 'all' through.
ValidateIndexRange_all_allowed(index_range) ==
    IF index_range.t # "range" /\ index_range # PyStr("all")
    THEN Raise("TypeError", "Index range format must be of range(min, max).")
    ELSE Return(PyNone)

\* Lines 160-164.
ValidateIndexRange(index_range) ==
    IF \/ index_range.t # "range"
       \/ (index_range.t = "str" /\ index_range # PyStr("all"))
    THEN Raise("TypeError", "Index range format must be of range(min, max).")
    ELSE Return(PyNone)

\* Lines 63-115 with dry_run=True: the renamed names, or None when the list
\* is empty.
loop_renamer_dry_run(obj_list, starting_number) ==
    IF Len(obj_list) > 0
    THEN Return(PyList([i \in DOMAIN obj_list |->
                           Numbered(obj_list[i], starting_number + i - 1)]))
    ELSE Return(PyNone)

\* Lines 118-120.
loop_direct_renamer(obj_list, fixed_new_obj_list) ==
    LET n == IF Len(obj_list) < Len(fixed_new_obj_list)
             THEN Len(obj_list) ELSE Len(fixed_new_obj_list)
    IN  [i \in 1..n |-> RenameCall(obj_list[i], fixed_new_obj_list[i])]

\* select_array_elements(obj_list_uneven, index_range): the elements at the
\* indices of the range that the list has.
select_array_elements(obj_list, index_range) ==
    LET idx == {i \in DOMAIN obj_list : index_range.start < i /\ i <= index_range.stop}
    IN  [k \in 1..Cardinality(idx) |->
            obj_list[CHOOSE i \in idx : Cardinality({j \in idx : j < i}) = k - 1]]

\* Lines 319-327 and 426-433: the prompt is repeated while the answer is
\* neither 'y' nor 'n'; the else clause of the while statement runs when
\* the loop ends.
RECURSIVE ConfirmAndRename(_, _, _)
ConfirmAndRename(answers, obj_list, new_obj_list) ==
    IF answers = <<>>
    THEN Res(Raise("EOFError", "EOF when reading a line"), <<>>)
    ELSE IF Head(answers) # "y" /\ Head(answers) # "n"
    THEN LET r == ConfirmAndRename(Tail(answers), obj_list, new_obj_list)
         IN  Res(r.out, <<InputCall(Head(answers))>> \o r.calls)
    ELSE Res(Return(PyNone),
             <<InputCall(Head(answers))>> \o loop_direct_renamer(obj_list, new_obj_list))

\* Lines 229-327 and 346-433: the check for conflicting objects, the report
\* and the confirmation, given the names of the dry run.
ReportAndConfirm(obj_list, dry_run, answers) ==
    IF dry_run.t = "None"
    THEN Res(Raise("TypeError", "'NoneType' object is not iterable"), <<>>)
    ELSE LET lcos == Len(dry_run.items)
         IN  IF lcos > 0
             THEN Res(Return(PyNone), <<>>)
             ELSE ConfirmAndRename(answers, obj_list, dry_run.items)

\* Lines 177-433, after the objects of the path have been listed.
reorder_listed(obj_list_uneven, index_range, starting_number, answers) ==
    IF index_range = PyStr("all")
    THEN LET resetting_number == IF starting_number = PyStr("default")
                                 THEN Len(obj_list_uneven) + 1
                                 ELSE starting_number.v
             dry1 == loop_renamer_dry_run(obj_list_uneven, resetting_number).value
         IN  IF dry1.t = "None"
             THEN Res(Raise("TypeError", "'NoneType' object is not iterable"), <<>>)
             ELSE ReportAndConfirm(obj_list_uneven,
                                   loop_renamer_dry_run(dry1.items, 1).value, answers)
    ELSE LET obj_list_uneven_slice == select_array_elements(obj_list_uneven, index_range)
         IN  IF starting_number = PyStr("default")
             THEN Res(Raise("ValueError", "'starting_number' argument cannot be 'default'"),
                      <<>>)
             ELSE ReportAndConfirm(obj_list_uneven_slice,
                                   loop_renamer_dry_run(obj_list_uneven_slice,
                                                        starting_number.v).value,
                                   answers)

(***************************************************************************)
(* Inputs.                                                                 *)
(***************************************************************************)
FloatTimes == (-MaxT)..MaxT
PrecisionInputs == {PyNone} \cup {PyInt(n) : n \in (min_prec - PrecSlack)..(max_prec + PrecSlack)}
OriginInputs == {"arbitrary", "unix", "epoch"}
UnitInputs == {"s", "ns", "h", "W"}
FmtInputs == {PyNone, PyStr(""), PyStr("%Y-%m-%d %H:%M:%S")}
FloatModuleInputs == {"str", "datetime", "time", "pandas", "numpy", "arrow", "dateutil"}

ArbitrarySeconds ==
    {h * 3600 + m * 60 + s : h \in 0..MaxHours, m \in {0, 1, 59}, s \in {0, 1, 59}}
ArbitraryTimes ==
    {2 * s + f : s \in ArbitrarySeconds, f \in {0, 1}}
    \cup {-(2 * s + f) : s \in ArbitrarySeconds, f \in {0, 1}}
ArbitraryPrecisions == {PyNone} \cup {PyInt(n) : n \in min_prec..max_prec}

TimeStrInputs == {"1970-01-01 00:00:01", "not a date"}
StrModuleInputs == {"datetime", "dateutil", "pandas", "numpy", "arrow", "time"}

TypeInputs == {"datetime", "datetime64", "time", "timestamp", "arrow", "struct_time",
               "dataframe", "series", "ndarray", "int", "date"}
ObjInputs == {DateObj(type, at, "s") : type \in TypeInputs, at \in {0, 2}}
TargetInputs == {PyNone, PyStr("")}
                \cup {PyStr(k) : k \in {"float", "datetime", "time", "pandas", "numpy",
                                        "arrow", "str", "date"}}
ConvUnitInputs == {"s", "ns", "h"}
FloatClassInputs == {"d", "double"}
IntClassInputs == {"int", "long"}
ConvFmtInputs == {PyNone, PyStr("%Y-%m-%d %H:%M:%S")}

ValidateUnitInputs == numpy_unit_list \cup {"W", "sec"}

\* Cells of one column: timestamps, text, or text with a missing value.
ColumnKinds == {"datetime64", "text", "missing"}
CellsOf(kind, rows) ==
    [r \in 1..rows |->
        CASE kind = "datetime64" -> Timestamp64(r)
          [] kind = "text"       -> PyStr("abc")
          [] OTHER               -> IF r = 1 THEN PyNone ELSE PyStr("abc")]
ColumnNames == <<"c1", "c2", "c3", "c4", "c5">>
FrameOf(kinds, rows) ==
    DataFrame([i \in DOMAIN kinds |-> Column(ColumnNames[i], CellsOf(kinds[i], rows))])
KindSeqs == UNION {[1..n -> ColumnKinds] : n \in 1..MaxCols}
ComplexDataInputs ==
    {FrameOf(kinds, rows) : kinds \in KindSeqs, rows \in 1..MaxRows}
    \cup {Series(CellsOf(kind, rows)) : kind \in ColumnKinds, rows \in 1..MaxRows}
    \cup {NdArray(CellsOf("datetime64", rows)) : rows \in 1..MaxRows}
UnitFactorInputs == {"1e-9", "1000"}

ZonedInputs ==
    {ZonedDatetime(at, tz) : at \in {0, 2}, tz \in {PyNone, PyStr("UTC"), PyStr("+01:00")}}

ToStringInputs ==
    ComplexDataInputs
    \cup {DateObj(type, 2, "s") : type \in {"datetime", "datetime64", "timestamp"}}

ArrayInputs ==
    {[dtype |-> d, items |-> s] :
        d \in {"int64", "O"},
        s \in UNION {[1..n -> {1, 4, 7}] : n \in 0..MaxArrayLen}}
LibraryInputs == {"python-default", "itertools", "itertools-comb", "numpy"}

OctetInputs == {0, 65, 128, 255}
BytesInputs == {PyBytes(s) : s \in UNION {[1..n -> OctetInputs] : n \in 0..MaxBytesLen}}
DictInputs ==
    {PyDict("name" :> PyStr("a")),
     PyDict(("name" :> PyStr("a")) @@ ("__value__" :> PyList(<<PyInt(65)>>))),
     PyDict(("__class__" :> PyStr("set")) @@ ("__value__" :> PyList(<<PyInt(65)>>))),
     PyDict(("__class__" :> PyInt(1)) @@ ("__value__" :> PyList(<<PyInt(65)>>))),
     PyDict(("__class__" :> PyStr("bytes")) @@ ("__value__" :> PyList(<<PyInt(65)>>))),
     PyDict(("__class__" :> PyStr("bytes")) @@ ("__value__" :> PyList(<<PyInt(256)>>))),
     PyDict("__class__" :> PyStr("bytes"))}
ToJsonInputs ==
    BytesInputs \cup DictInputs
    \cup {PyStr("a"), PyInt(1), PyNone, PyList(<<PyInt(65)>>),
          [t |-> "bytearray", octets |-> <<65>>]}

IndexRangeInputs ==
    {PyStr("all"), PyStr("some"), PyNone, PyInt(2)}
    \cup {PyRange(a, b) : a \in 0..1, b \in 0..MaxObjs}
ZeroPaddingInputs == {PyStr("default"), PyInt(0), PyInt(3), PyNone}
ObjectNames == <<"img_7", "img_9", "img_12", "img_30", "img_31">>
Listing(n) == [i \in 1..n |-> ObjectNames[i]]
AnswerSeqs == UNION {[1..n -> {"y", "n", "x"}] : n \in 0..MaxAnswers}

NoArgs == [fn |-> "none"]
NoLocals == [fn |-> "none"]

(***************************************************************************)
(* The machine.                                                            *)
(***************************************************************************)
Init ==
    /\ pc = "idle"
    /\ fn = "none"
    /\ args = NoArgs
    /\ locals = NoLocals
    /\ outcome = Pending
    /\ calls = <<>>
    /\ validated = FALSE

\* A validation step: the error of check `v` ends the call, else go on at `next`.
Check(v, next, last) ==
    /\ IF Raised(v)
       THEN /\ outcome' = v
            /\ pc' = "done"
            /\ validated' = validated
       ELSE /\ outcome' = outcome
            /\ pc' = next
            /\ validated' = last
    /\ UNCHANGED <<fn, args, locals, calls>>

\* parse_float_time with the unit validated only after the parsing.
pft_order_late_unit == <<"pft_module", "pft_fmt", "pft_precision", "pft_parse", "pft_unit">>

\* The order of the statements of parse_float_time (lines 240-268).
pft_order == <<"pft_module", "pft_fmt", "pft_precision", "pft_unit", "pft_parse">>

PftAfter(label) ==
    LET i == CHOOSE k \in 1..Len(pft_order) : pft_order[k] = label
    IN  IF i = Len(pft_order) THEN "done" ELSE pft_order[i + 1]

\* Whether every statement after `label` is the parsing step or the end.
PftLast(label) == \A k \in 1..Len(pft_order) :
    (pft_order[k] = label) =>
        \A j \in (k + 1)..Len(pft_order) : pft_order[j] = "pft_parse"

Call_parse_float_time ==
    /\ pc = "idle"
    /\ \E datetime_float \in FloatTimes, frac_precision \in PrecisionInputs,
          origin \in OriginInputs, unit \in UnitInputs,
          dt_fmt_str \in FmtInputs, module \in FloatModuleInputs :
          args' = [datetime_float |-> datetime_float, frac_precision |-> frac_precision,
                   origin |-> origin, unit |-> unit, dt_fmt_str |-> dt_fmt_str,
                   module |-> module]
    /\ fn' = "parse_float_time"
    /\ pc' = pft_order[1]
    /\ locals' = NoLocals
    /\ outcome' = Pending
    /\ calls' = <<>>
    /\ validated' = FALSE

PFT_ValidateModule ==
    /\ pc = "pft_module"
    /\ Check(_validate_option("Object type conversion", args.module,
                              {"str"} \cup DOMAIN floated_time_parsing_dict),
             PftAfter("pft_module"), PftLast("pft_module"))

PFT_ValidateFmt ==
    /\ pc = "pft_fmt"
    /\ Check(IF args.module # "str" /\ ~Truthy(args.dt_fmt_str)
             THEN Raise("ValueError", "You must provide a formatting string.")
             ELSE Return(PyNone),
             PftAfter("pft_fmt"), PftLast("pft_fmt"))

PFT_ValidatePrecision ==
    /\ pc = "pft_precision"
    /\ Check(_validate_precision(args.frac_precision, args.module),
             PftAfter("pft_precision"), PftLast("pft_precision"))

PFT_ValidateUnit ==
    /\ pc = "pft_unit"
    /\ Check(_validate_unit(args.unit, args.module),
             PftAfter("pft_unit"), PftLast("pft_unit"))

PFT_Parse ==
    /\ pc = "pft_parse"
    /\ LET r == IF args.module = "str"
                THEN _parse_float_to_string(args.datetime_float, args.frac_precision,
                                            args.origin, args.dt_fmt_str, args.unit,
                                            args.module)
                ELSE _float_time_parser(args.datetime_float, args.module, args.unit)
       IN  /\ calls' = calls \o r.calls
           /\ IF PftAfter("pft_parse") = "done"
              THEN outcome' = r.out /\ pc' = "done"
              ELSE IF Raised(r.out)
              THEN outcome' = r.out /\ pc' = "done"
              ELSE outcome' = r.out /\ pc' = PftAfter("pft_parse")
    /\ locals' = IF args.module = "str" /\ args.origin = "arbitrary"
                    /\ args.frac_precision.t # "None"
                 THEN ArbitraryLocals(args.datetime_float, args.frac_precision)
                 ELSE locals
    /\ UNCHANGED <<fn, args, validated>>

\* Direct calls of the helpers.
Apply_validate_precision ==
    /\ pc = "idle"
    /\ \E frac_precision \in PrecisionInputs, option \in FloatModuleInputs :
          /\ args' = [frac_precision |-> frac_precision, option |-> option]
          /\ outcome' = _validate_precision(frac_precision, option)
    /\ fn' = "_validate_precision"
    /\ pc' = "done"
    /\ UNCHANGED <<locals, calls, validated>>

Apply_validate_unit ==
    /\ pc = "idle"
    /\ \E unit \in ValidateUnitInputs, module \in FloatModuleInputs :
          /\ args' = [unit |-> unit, module |-> module]
          /\ outcome' = _validate_unit(unit, module)
    /\ fn' = "_validate_unit"
    /\ pc' = "done"
    /\ UNCHANGED <<locals, calls, validated>>

Apply_format_arbitrary_time ==
    /\ pc = "idle"
    /\ \E floated_time \in ArbitraryTimes, frac_precision \in ArbitraryPrecisions :
          /\ args' = [floated_time |-> floated_time, frac_precision |-> frac_precision]
          /\ outcome' = _format_arbitrary_time(floated_time, frac_precision).out
          /\ calls' = _format_arbitrary_time(floated_time, frac_precision).calls
          /\ locals' = IF frac_precision.t # "None"
                       THEN ArbitraryLocals(floated_time, frac_precision)
                       ELSE NoLocals
    /\ fn' = "_format_arbitrary_time"
    /\ pc' = "done"
    /\ UNCHANGED validated

Call_parse_time_string ==
    /\ pc = "idle"
    /\ \E datetime_str \in TimeStrInputs, dt_fmt_str \in FmtInputs,
          module \in StrModuleInputs, unit \in {"ns", "W"} :
          args' = [datetime_str |-> datetime_str, dt_fmt_str |-> dt_fmt_str,
                   module |-> module, unit |-> unit]
    /\ fn' = "parse_time_string"
    /\ pc' = "pts_module"
    /\ locals' = NoLocals
    /\ outcome' = Pending
    /\ calls' = <<>>
    /\ validated' = FALSE

PTS_ValidateModule ==
    /\ pc = "pts_module"
    /\ Check(_validate_option("Module", args.module, DOMAIN time_str_parsing_dict),
             "pts_fmt", FALSE)

\* The format check testing only for an absent pattern.
pts_fmt_check_none_only(dt_fmt_str) ==
    IF dt_fmt_str = PyNone
    THEN Raise("ValueError", "A datetime format string must be provided.")
    ELSE Return(PyNone)

\* Lines 167-168: `if not dt_fmt_str: raise ValueError(...)`.
pts_fmt_check(dt_fmt_str) ==
    IF ~Truthy(dt_fmt_str)
    THEN Raise("ValueError", "A datetime format string must be provided.")
    ELSE Return(PyNone)

PTS_ValidateFmt ==
    /\ pc = "pts_fmt"
    /\ Check(pts_fmt_check(args.dt_fmt_str), "pts_parse", TRUE)

PTS_Parse ==
    /\ pc = "pts_parse"
    /\ LET r == ParseTimeStringBody(args.datetime_str, args.dt_fmt_str.v,
                                    args.module, args.unit)
       IN  /\ outcome' = r.out
           /\ calls' = calls \o r.calls
    /\ pc' = "done"
    /\ UNCHANGED <<fn, args, locals, validated>>

Call_datetime_obj_converter ==
    /\ pc = "idle"
    /\ \E datetime_obj \in ObjInputs, convert_to \in TargetInputs,
          unit \in ConvUnitInputs, float_class \in FloatClassInputs,
          int_class \in IntClassInputs, dt_fmt_str \in ConvFmtInputs :
          args' = [datetime_obj |-> datetime_obj, convert_to |-> convert_to,
                   unit |-> unit, float_class |-> float_class,
                   int_class |-> int_class, dt_fmt_str |-> dt_fmt_str]
    /\ fn' = "datetime_obj_converter"
    /\ pc' = "doc_convert_to"
    /\ locals' = NoLocals
    /\ outcome' = Pending
    /\ calls' = <<>>
    /\ validated' = FALSE

\* The round trip: the object parse_float_time has just returned for a
\* unit-bearing backend is handed to datetime_obj_converter to be turned
\* back into a float with the same unit.
Call_datetime_obj_converter_on_parsed ==
    /\ pc = "done"
    /\ fn = "parse_float_time"
    /\ args.module \in {"pandas", "numpy"}
    /\ outcome.kind = "return"
    /\ args' = [datetime_obj |-> outcome.value, convert_to |-> PyStr("float"),
                unit |-> args.unit, float_class |-> "d", int_class |-> "int",
                dt_fmt_str |-> PyNone, parsed_from |-> args.datetime_float]
    /\ fn' = "datetime_obj_converter"
    /\ pc' = "doc_convert_to"
    /\ locals' = NoLocals
    /\ outcome' = Pending
    /\ calls' = <<>>
    /\ validated' = FALSE

DOC_ValidateConvertTo ==
    /\ pc = "doc_convert_to"
    /\ Check(IF ~Truthy(args.convert_to)
             THEN Raise("ValueError", "Argument 'convert_to' not provided.")
             ELSE Return(PyNone),
             "doc_unit", FALSE)

DOC_ValidateUnit ==
    /\ pc = "doc_unit"
    /\ Check(_validate_option("Time unit factor", args.unit, unit_factor_keys),
             "doc_float_class", FALSE)

DOC_ValidateFloatClass ==
    /\ pc = "doc_float_class"
    /\ Check(_validate_option("Numpy float precision class", args.float_class,
                              _float_class_list),
             "doc_int_class", FALSE)

DOC_ValidateIntClass ==
    /\ pc = "doc_int_class"
    /\ Check(_validate_option("Numpy integer precision class", args.int_class,
                              _int_class_list),
             "doc_target", FALSE)

\* ValidateTarget checking the target against the keys of all the tables.
ValidateTarget_any(obj_type, convert_to) ==
    IF obj_type \notin DOMAIN conversion_opt_dict
    THEN Raise("KeyError", obj_type)
    ELSE _validate_option("Object type conversion", convert_to,
                          UNION {DOMAIN conversion_opt_dict[k] : k \in DOMAIN conversion_opt_dict})

\* Lines 523-528: the type name, then the target checked against its table.
ValidateTarget(obj_type, convert_to) ==
    IF obj_type \notin DOMAIN conversion_opt_dict
    THEN Raise("KeyError", obj_type)
    ELSE _validate_option("Object type conversion", convert_to,
                          DOMAIN conversion_opt_dict[obj_type])

DOC_ValidateTarget ==
    /\ pc = "doc_target"
    /\ LET obj_type == get_type_str(args.datetime_obj)
           v == ValidateTarget(obj_type, args.convert_to.v)
       IN  /\ IF Raised(v)
              THEN outcome' = v /\ pc' = "done" /\ validated' = validated
              ELSE outcome' = outcome /\ pc' = "doc_perform" /\ validated' = TRUE
           /\ locals' = [obj_type |-> obj_type]
    /\ UNCHANGED <<fn, args, calls>>

DOC_Perform ==
    /\ pc = "doc_perform"
    /\ LET r == perform_conversion(locals.obj_type, args.convert_to.v,
                                   args.datetime_obj, <<>>, perform_call_kwargs)
       IN  /\ outcome' = r.out
           /\ calls' = calls \o r.calls
    /\ pc' = "done"
    /\ UNCHANGED <<fn, args, locals, validated>>

Call_total_time_complex_data ==
    /\ pc = "idle"
    /\ \E datetime_obj \in ComplexDataInputs, unit_factor \in UnitFactorInputs :
          /\ args' = [datetime_obj |-> datetime_obj, int_class |-> "int",
                      unit_factor |-> unit_factor]
          /\ locals' = [heap |-> [in |-> datetime_obj], datetime_obj |-> "in"]
    /\ fn' = "_total_time_complex_data"
    /\ pc' = "ttcd_copy"
    /\ outcome' = Pending
    /\ calls' = <<>>
    /\ validated' = FALSE

\* Line 624.
TTCD_Copy ==
    /\ pc = "ttcd_copy"
    /\ LET c == copy(locals.heap, locals.datetime_obj)
       IN  locals' = [heap |-> c.heap, datetime_obj |-> locals.datetime_obj,
                      dt_obj_aux |-> c.ref, col |-> 1]
    /\ pc' = "ttcd_convert"
    /\ UNCHANGED <<fn, args, outcome, calls, validated>>

\* Lines 626-643: the Series branch, or one iteration or the end of the
\* DataFrame loop, or the fall through of any other object.
TTCD_Convert ==
    /\ pc = "ttcd_convert"
    /\ LET obj == locals.heap[locals.datetime_obj]
       IN  CASE obj.t = "Series" ->
                  /\ outcome' = SeriesBranch(locals.heap[locals.dt_obj_aux],
                                             args.int_class, args.unit_factor)
                  /\ pc' = "done"
                  /\ locals' = locals
             [] obj.t = "DataFrame" /\ locals.col <= Len(obj.cols) ->
                  LET s == DataFrameColumn(locals.heap, locals.dt_obj_aux,
                                           obj.cols[locals.col].name,
                                           args.int_class, args.unit_factor)
                  IN  /\ outcome' = s.out
                      /\ pc' = IF Raised(s.out) THEN "done" ELSE "ttcd_convert"
                      /\ locals' = [locals EXCEPT !.heap = s.heap, !.col = @ + 1]
             [] obj.t = "DataFrame" /\ locals.col > Len(obj.cols) ->
                  /\ outcome' = Return(locals.heap[locals.dt_obj_aux])
                  /\ pc' = "done"
                  /\ locals' = locals
             [] OTHER ->
                  /\ outcome' = Return(PyNone)
                  /\ pc' = "done"
                  /\ locals' = locals
    /\ UNCHANGED <<fn, args, calls, validated>>

\* A call of an entry of datetime_obj_conversion_dict with the arguments
\* its lambda declares.
Apply_datetime_obj_conversion ==
    /\ pc = "idle"
    /\ \E dt_obj \in ZonedInputs, convert_to \in DOMAIN datetime_obj_conversion_dict,
          unit \in ConvUnitInputs :
          /\ args' = [dt_obj |-> dt_obj, convert_to |-> convert_to, unit |-> unit]
          /\ LET r == datetime_obj_conversion_body(convert_to, dt_obj, unit)
             IN  /\ outcome' = r.out
                 /\ calls' = r.calls
    /\ fn' = "datetime_obj_conversion_dict"
    /\ pc' = "done"
    /\ UNCHANGED <<locals, validated>>

Apply_to_pandas ==
    /\ pc = "idle"
    /\ \E dt_obj \in ZonedInputs, unit \in ConvUnitInputs :
          /\ args' = [dt_obj |-> dt_obj, convert_to |-> "pandas", unit |-> unit]
          /\ LET r == _to_pandas(dt_obj, unit)
             IN  /\ outcome' = r.out
                 /\ calls' = r.calls
    /\ fn' = "_to_pandas"
    /\ pc' = "done"
    /\ UNCHANGED <<locals, validated>>

Apply_to_numpy ==
    /\ pc = "idle"
    /\ \E dt_obj \in ZonedInputs, unit \in ConvUnitInputs :
          /\ args' = [dt_obj |-> dt_obj, convert_to |-> "numpy", unit |-> unit]
          /\ LET r == _to_numpy(dt_obj, unit)
             IN  /\ outcome' = r.out
                 /\ calls' = r.calls
    /\ fn' = "_to_numpy"
    /\ pc' = "done"
    /\ UNCHANGED <<locals, validated>>

Apply_to_string ==
    /\ pc = "idle"
    /\ \E dt_obj \in ToStringInputs, unit \in ConvUnitInputs, dt_fmt_str \in ConvFmtInputs :
          /\ args' = [dt_obj |-> dt_obj, unit |-> unit, dt_fmt_str |-> dt_fmt_str]
          /\ outcome' = _to_string(dt_obj, unit, dt_fmt_str)
    /\ fn' = "_to_string"
    /\ pc' = "done"
    /\ UNCHANGED <<locals, calls, validated>>

Call_unify_complex_data ==
    /\ pc = "idle"
    /\ \E datetime_obj \in ComplexDataInputs, date_unit \in {"s", "ns"} :
          /\ args' = [datetime_obj |-> datetime_obj, date_unit |-> date_unit]
          /\ locals' = [heap |-> [in |-> datetime_obj], col |-> 1]
    /\ fn' = "unify_complex_data"
    /\ pc' = "ucd_convert"
    /\ outcome' = Pending
    /\ calls' = <<>>
    /\ validated' = FALSE

\* Lines 612-629: one iteration or the end of the DataFrame loop, or the
\* Series branch, or the fall through of any other object.
UCD_Convert ==
    /\ pc = "ucd_convert"
    /\ LET obj == locals.heap.in
       IN  CASE obj.t = "DataFrame" /\ locals.col <= Len(obj.cols) ->
                  /\ locals' = [heap |-> UnifyColumn(locals.heap, obj.cols[locals.col].name,
                                                     args.date_unit),
                                col |-> locals.col + 1]
                  /\ outcome' = outcome
                  /\ pc' = "ucd_convert"
             [] obj.t = "DataFrame" /\ locals.col > Len(obj.cols) ->
                  /\ outcome' = IF "aux" \in DOMAIN locals.heap
                                THEN Return(locals.heap.aux)
                                ELSE Raise("UnboundLocalError", "dt_obj_aux")
                  /\ pc' = "done"
                  /\ locals' = locals
             [] obj.t = "Series" ->
                  /\ outcome' = UnifySeries(obj, args.date_unit)
                  /\ pc' = "done"
                  /\ locals' = locals
             [] OTHER ->
                  /\ outcome' = Return(PyNone)
                  /\ pc' = "done"
                  /\ locals' = locals
    /\ UNCHANGED <<fn, args, calls, validated>>

Apply_calc_all_unique_pairs ==
    /\ pc = "idle"
    /\ \E array_like \in ArrayInputs, library \in LibraryInputs :
          /\ args' = [array_like |-> array_like, library |-> library]
          /\ outcome' = calc_all_unique_pairs(array_like, library)
    /\ fn' = "calc_all_unique_pairs"
    /\ pc' = "done"
    /\ UNCHANGED <<locals, calls, validated>>

Apply_to_json ==
    /\ pc = "idle"
    /\ \E python_object \in ToJsonInputs :
          /\ args' = [python_object |-> python_object]
          /\ outcome' = to_json(python_object)
    /\ fn' = "to_json"
    /\ pc' = "done"
    /\ UNCHANGED <<locals, calls, validated>>

Apply_from_json ==
    /\ pc = "idle"
    /\ \E json_object \in DictInputs :
          /\ args' = [json_object |-> json_object]
          /\ outcome' = from_json(json_object)
    /\ fn' = "from_json"
    /\ pc' = "done"
    /\ UNCHANGED <<locals, calls, validated>>

\* The round trip: what to_json has just returned is given to from_json.
Apply_from_json_on_encoded ==
    /\ pc = "done"
    /\ fn = "to_json"
    /\ outcome.kind = "return"
    /\ args' = [json_object |-> outcome.value, encoded_from |-> args.python_object]
    /\ outcome' = from_json(outcome.value)
    /\ fn' = "from_json"
    /\ pc' = "done"
    /\ UNCHANGED <<locals, calls, validated>>

Call_reorder_objs ==
    /\ pc = "idle"
    /\ \E path \in {PyNone, PyStr("dir")}, obj_type \in {"file", "directory", "link"},
          index_range \in IndexRangeInputs, starting_number \in {PyStr("default"), PyInt(1)},
          zero_padding \in ZeroPaddingInputs :
          args' = [path |-> path, obj_type |-> obj_type, index_range |-> index_range,
                   starting_number |-> starting_number, zero_padding |-> zero_padding]
    /\ fn' = "reorder_objs"
    /\ pc' = "ro_zero_padding"
    /\ locals' = NoLocals
    /\ outcome' = Pending
    /\ calls' = <<>>
    /\ validated' = FALSE

RO_ValidateZeroPadding ==
    /\ pc = "ro_zero_padding"
    /\ Check(ValidateZeroPadding(args.zero_padding), "ro_path", FALSE)

\* Lines 157-158.
RO_ValidatePath ==
    /\ pc = "ro_path"
    /\ Check(IF args.path = PyNone
             THEN Raise("ValueError", "A path string or PosixPath must be given.")
             ELSE Return(PyNone),
             "ro_index_range", FALSE)

RO_ValidateIndexRange ==
    /\ pc = "ro_index_range"
    /\ Check(ValidateIndexRange(args.index_range), "ro_list", TRUE)

\* Lines 166-175: the objects found under the path; obj_list_uneven is
\* unbound when obj_type is neither 'file' nor 'directory'.
RO_ListObjects ==
    /\ pc = "ro_list"
    /\ IF args.obj_type \in Range(basic_object_types)
       THEN /\ \E n \in 0..MaxObjs : locals' = [obj_list_uneven |-> Listing(n)]
            /\ outcome' = outcome
            /\ pc' = "ro_reorder"
       ELSE /\ locals' = locals
            /\ outcome' = Raise("UnboundLocalError", "obj_list_uneven")
            /\ pc' = "done"
    /\ UNCHANGED <<fn, args, calls, validated>>

\* Lines 177-433, with the answers the user would type at the prompts.
RO_Reorder ==
    /\ pc = "ro_reorder"
    /\ \E answers \in AnswerSeqs :
          LET r == reorder_listed(locals.obj_list_uneven, args.index_range,
                                  args.starting_number, answers)
          IN  /\ outcome' = r.out
              /\ calls' = r.calls
              /\ locals' = [obj_list_uneven |-> locals.obj_list_uneven,
                            answers |-> answers]
    /\ pc' = "done"
    /\ UNCHANGED <<fn, args, validated>>

\* The caller takes the result; the next call starts from scratch.
Finish ==
    /\ pc = "done"
    /\ pc' = "idle"
    /\ fn' = "none"
    /\ args' = NoArgs
    /\ locals' = NoLocals
    /\ outcome' = Pending
    /\ calls' = <<>>
    /\ validated' = FALSE

Next ==
    \/ Call_parse_float_time
    \/ PFT_ValidateModule
    \/ PFT_ValidateFmt
    \/ PFT_ValidatePrecision
    \/ PFT_ValidateUnit
    \/ PFT_Parse
    \/ Call_parse_time_string
    \/ PTS_ValidateModule
    \/ PTS_ValidateFmt
    \/ PTS_Parse
    \/ Call_datetime_obj_converter
    \/ DOC_ValidateConvertTo
    \/ DOC_ValidateUnit
    \/ DOC_ValidateFloatClass
    \/ DOC_ValidateIntClass
    \/ DOC_ValidateTarget
    \/ DOC_Perform
    \/ Apply_validate_precision
    \/ Apply_format_arbitrary_time
    \/ Apply_validate_unit
    \/ Call_total_time_complex_data
    \/ TTCD_Copy
    \/ TTCD_Convert
    \/ Apply_datetime_obj_conversion
    \/ Apply_to_pandas
    \/ Apply_to_numpy
    \/ Call_datetime_obj_converter_on_parsed
    \/ Apply_to_string
    \/ Call_unify_complex_data
    \/ UCD_Convert
    \/ Apply_calc_all_unique_pairs
    \/ Apply_to_json
    \/ Apply_from_json
    \/ Apply_from_json_on_encoded
    \/ Call_reorder_objs
    \/ RO_ValidateZeroPadding
    \/ RO_ValidatePath
    \/ RO_ValidateIndexRange
    \/ RO_ListObjects
    \/ RO_Reorder
    \/ Finish

Spec == Init /\ [][Next]_vars

(***************************************************************************)
(* Properties.                                                             *)
(***************************************************************************)
Done(f) == fn = f /\ pc = "done"

\* C1: _validate_precision raises ValueError for every integer
\* frac_precision outside 0..9 with any backend and for 7..9 with a backend
\* other than 'pandas'; it raises nothing for 0..6 with any backend nor for
\* 7..9 with 'pandas'.  In parse_float_time it has run, and no parsing has,
\* when the unit is about to be validated.
C1_ValidatePrecision ==
    /\ (Done("_validate_precision") /\ args.frac_precision.t = "int") =>
          LET p == args.frac_precision.v
              mustRaise == p < 0 \/ p > 9 \/ (p \in 7..9 /\ args.option # "pandas")
          IN  IF mustRaise
              THEN RaisedExc(outcome, "ValueError")
              ELSE outcome = Return(PyNone)
    /\ (fn = "parse_float_time" /\ pc = "pft_unit") =>
          /\ args.frac_precision.t = "int"
          /\ args.frac_precision.v \in 0..9
          /\ args.frac_precision.v \in 7..9 => args.module = "pandas"
          /\ calls = <<>>

C1_Witness ==
    /\ Done("_validate_precision")
    /\ args.frac_precision = PyInt(7)
    /\ args.option = "numpy"
    /\ RaisedExc(outcome, "ValueError")

\* The arguments of parse_float_time other than frac_precision are valid.
PftOtherArgsValid ==
    /\ args.module \in {"str", "datetime", "pandas", "numpy", "arrow"}
    /\ args.dt_fmt_str = PyStr("%Y-%m-%d %H:%M:%S")
    /\ args.unit \in {"s", "ns"}
    /\ args.origin \in {"arbitrary", "unix"}

\* C2: parse_float_time with frac_precision=None and otherwise valid
\* arguments returns a value; the absent precision never causes an error.
C2_NonePrecisionReturns ==
    (Done("parse_float_time") /\ args.frac_precision = PyNone /\ PftOtherArgsValid)
        => outcome.kind = "return"

\* C3: parse_float_time with module='str', origin='unix' and frac_precision
\* in 0..6 returns the text rendered with dt_fmt_str from the object parsed
\* from the offset rounded to the nearest whole second.
C3_StrUnixRendersRounded ==
    (/\ Done("parse_float_time")
     /\ args.module = "str"
     /\ args.origin = "unix"
     /\ args.frac_precision.t = "int"
     /\ args.frac_precision.v \in 0..6
     /\ args.dt_fmt_str = PyStr("%Y-%m-%d %H:%M:%S"))
        => /\ outcome.kind = "return"
           /\ outcome.value.t = "text"
           /\ outcome.value.fmt = args.dt_fmt_str.v
           /\ outcome.value.of.at = 2 * PyRound(args.datetime_float)

NanoPathCalled == \E i \in DOMAIN calls : calls[i].table = "get_nano_datetime"

\* C4: a call of parse_float_time that its validation accepts, with
\* origin='unix' and frac_precision in 7..9, goes through get_nano_datetime,
\* with backend 'pandas'.
C4_NanoPathTaken ==
    (/\ Done("parse_float_time")
     /\ validated
     /\ args.origin = "unix"
     /\ args.frac_precision.t = "int"
     /\ args.frac_precision.v \in 7..9)
        => (NanoPathCalled /\ args.module = "pandas")

\* C5: for a non-negative whole offset s, _format_arbitrary_time computes
\* days*86400 + hours*3600 + minutes*60 + seconds = s with hours in 0..23,
\* minutes in 0..59 and seconds in 0..59; s = 90000 gives 1, 1, 0, 0.
C5_ArbitraryComponents ==
    (/\ Done("_format_arbitrary_time")
     /\ args.frac_precision.t = "int"
     /\ args.floated_time >= 0
     /\ IsWhole(args.floated_time))
        => LET s == args.floated_time \div 2
           IN  /\ IsWhole(locals.seconds)
               /\ locals.days * 86400 + locals.hours * 3600 + locals.minutes * 60
                     + (locals.seconds \div 2) = s
               /\ locals.days >= 0
               /\ locals.hours \in 0..23
               /\ locals.minutes \in 0..59
               /\ (locals.seconds \div 2) \in 0..59
               /\ s = 90000 =>
                     /\ locals.days = 1 /\ locals.hours = 1
                     /\ locals.minutes = 0 /\ locals.seconds = 0
                     /\ outcome = Return(Text(<<1, 1, 0, 0>>,
                                    "{} days {} hours {} minutes {} seconds"))

C5_Witness ==
    /\ Done("_format_arbitrary_time")
    /\ args.floated_time = 2 * 90000
    /\ args.frac_precision = PyInt(0)
    /\ locals = [days |-> 1, hours |-> 1, minutes |-> 0, seconds |-> 0]
    /\ outcome.kind = "return"

\* The source kinds paired with the target naming the same kind.
SameKindTarget ==
    [datetime |-> "datetime", datetime64 |-> "numpy", timestamp |-> "pandas",
     arrow |-> "arrow", struct_time |-> "time"]

C7_EpochPlusOneIsOne ==
    (/\ Done("datetime_obj_converter")
     /\ args.datetime_obj = DateObj("datetime", 2, "s")
     /\ args.convert_to = PyStr("float")
     /\ args.unit = "s"
     /\ args.float_class = "d"
     /\ args.int_class = "int")
        => outcome = Return(PyFloat(2))

\* C8: for every registered source kind and every legal target, with valid
\* unit and precision classes, exactly one conversion function is invoked,
\* it accepts its arguments, and its result is returned.
C8_DispatchReturns ==
    (Done("datetime_obj_converter") /\ validated)
        => /\ calls = <<Entry(locals.obj_type, args.convert_to.v)>>
           /\ outcome.kind = "return"
           /\ outcome = ConversionEntry(locals.obj_type, args.convert_to.v,
                                        args.datetime_obj)

\* C9: once the validation of datetime_obj_converter has passed, a failure
\* of the call is a RuntimeError naming the target and the cause.
C9_FailuresWrapped ==
    (Done("datetime_obj_converter") /\ validated /\ Raised(outcome))
        => /\ outcome.exc = "RuntimeError"
           /\ outcome.target = args.convert_to.v
           /\ outcome.cause \in STRING

ValidationPcs ==
    {"pft_module", "pft_fmt", "pft_precision", "pft_unit",
     "pts_module", "pts_fmt",
     "doc_convert_to", "doc_unit", "doc_float_class", "doc_int_class", "doc_target"}

\* What the validation checks raise.
ValidationError(o) ==
    /\ Raised(o)
    /\ \/ o.exc = "KeyError"
       \/ o.msg \in {"Object type conversion", "Module", "Time unit factor",
                     "Numpy float precision class", "Numpy integer precision class",
                     "You must provide a formatting string.",
                     "A datetime format string must be provided.",
                     "Argument 'convert_to' not provided.",
                     "Fractional precision must be between min and max",
                     "'<=' not supported between 'int' and 'NoneType'",
                     "Only option 'pandas' supports precision",
                     "Unsupported date unit for numpy.datetime64 objects",
                     "Unsupported date unit for pandas.Timestamp objects"}

\* A validation step runs while nothing has been invoked, invokes nothing
\* and leaves the arguments as they were.
ValidationStepIsPure ==
    (pc \in ValidationPcs) =>
        /\ calls = <<>>
        /\ calls' = calls
        /\ args' = args
        /\ fn' = fn

\* C10: in parse_time_string, parse_float_time and datetime_obj_converter
\* the validation checks run before any parsing or conversion function is
\* invoked: a failed check ends the call with no dispatch-table entry
\* called, and a validation step changes no state.
C10_ValidationFirst ==
    /\ [][ValidationStepIsPure]_vars
    /\ [](ValidationError(outcome) => calls = <<>>)

C10_Witness ==
    /\ Done("parse_float_time")
    /\ args.module = "pandas"
    /\ args.unit = "h"
    /\ outcome = Raise("ValueError", "Unsupported date unit for pandas.Timestamp objects")
    /\ calls = <<>>

\* The units of the data model: day, second, milli-, micro- and nanosecond.
DataModelUnits == {"D", "s", "ms", "us", "ns"}

\* The legal unit set the claim gives each backend of parse_float_time.
ClaimedLegalUnits(module) ==
    CASE module = "numpy"  -> {"Y", "M", "D", "h", "m", "s", "ms", "us", "ns"}
      [] module = "pandas" -> {"D", "s", "ms", "us", "ns"}
      [] OTHER             -> DataModelUnits

\* C11 (as claimed): for each backend accepted by parse_float_time,
\* _validate_unit raises ValueError when the unit is outside the backend's
\* legal unit set and raises nothing when it is inside.
C11_EveryBackendChecked ==
    (Done("_validate_unit")
     /\ args.module \in {"str", "datetime", "time", "pandas", "numpy", "arrow"})
        => IF args.unit \notin ClaimedLegalUnits(args.module)
           THEN RaisedExc(outcome, "ValueError")
           ELSE outcome = Return(PyNone)

\* C11 (amended): _validate_unit raises ValueError exactly when the module
\* is 'numpy' or 'pandas' and the unit is outside that module's list; for
\* every other module it accepts any unit.
C11_OnlyNumpyPandasChecked ==
    Done("_validate_unit")
        => IF \/ /\ args.module = "numpy"
                 /\ args.unit \notin {"Y", "M", "D", "h", "m", "s", "ms", "us", "ns"}
              \/ /\ args.module = "pandas"
                 /\ args.unit \notin {"D", "s", "ms", "us", "ns"}
           THEN RaisedExc(outcome, "ValueError")
           ELSE outcome = Return(PyNone)

C11_Witness ==
    /\ Done("_validate_unit")
    /\ args.module = "pandas"
    /\ args.unit = "h"
    /\ RaisedExc(outcome, "ValueError")

\* C12: parse_time_string with one of the five supported backends and an
\* empty or absent format pattern raises ValueError('A datetime format
\* string must be provided.') and no parse function has been invoked.
C12_MissingFormatBeforeParse ==
    (Done("parse_time_string")
     /\ args.module \in {"datetime", "dateutil", "pandas", "numpy", "arrow"}
     /\ (args.dt_fmt_str = PyNone \/ args.dt_fmt_str = PyStr("")))
        => /\ outcome = Raise("ValueError", "A datetime format string must be provided.")
           /\ calls = <<>>

C12_Witness ==
    /\ Done("parse_time_string")
    /\ args.module = "numpy"
    /\ args.dt_fmt_str = PyStr("")
    /\ outcome = Raise("ValueError", "A datetime format string must be provided.")
    /\ calls = <<>>

\* C13: parse_time_string with a supported backend and a non-empty format
\* pattern either returns the parsed object or raises ValueError('The time
\* string does not match the format string provided.'), and a text that
\* does not conform to the pattern yields that ValueError.
C13_ReturnsOrMismatch ==
    (Done("parse_time_string")
     /\ args.module \in DOMAIN time_str_parsing_dict
     /\ Truthy(args.dt_fmt_str))
        => /\ \/ outcome.kind = "return"
              \/ outcome = Raise("ValueError",
                     "The time string does not match the format string provided.")
           /\ ~Conforms(args.datetime_str, args.dt_fmt_str.v)
                 => outcome = Raise("ValueError",
                        "The time string does not match the format string provided.")

\* What a column holds.
Temporal(cells) == \A i \in DOMAIN cells : cells[i].t = "datetime64"
HasMissing(cells) == \E i \in DOMAIN cells : cells[i] = PyNone

\* The column with every cell turned into its total time.
ConvertedColumn(col, unit_factor) ==
    Column(col.name, [i \in DOMAIN col.cells |-> Product(col.cells[i].at, unit_factor)])

\* The table with its temporal columns converted and the others as they were.
BestEffortFrame(frame, unit_factor) ==
    DataFrame([i \in DOMAIN frame.cols |->
                  IF Temporal(frame.cols[i].cells)
                  THEN ConvertedColumn(frame.cols[i], unit_factor)
                  ELSE frame.cols[i]])

TabularCallDone ==
    /\ Done("_total_time_complex_data")
    /\ args.datetime_obj.t = "DataFrame"

ColumnNamesOf(frame) == [i \in DOMAIN frame.cols |-> frame.cols[i].name]
RowCounts(frame) == [i \in DOMAIN frame.cols |-> Len(frame.cols[i].cells)]
SameShape(a, b) ==
    /\ a.t = "DataFrame"
    /\ b.t = "DataFrame"
    /\ ColumnNamesOf(a) = ColumnNamesOf(b)
    /\ RowCounts(a) = RowCounts(b)

SeriesCallDone ==
    /\ Done("_total_time_complex_data")
    /\ args.datetime_obj.t = "Series"

C17_ZoneStrippedFirst ==
    (/\ pc = "done"
     /\ fn \in {"datetime_obj_conversion_dict", "_to_pandas", "_to_numpy"}
     /\ IsAware(args.dt_obj)
     /\ args.convert_to \in {"float", "pandas", "numpy"})
        => \A i \in DOMAIN calls : ~IsAware(calls[i].on)

\* C18: parsing an epoch offset f with parse_float_time for a unit-bearing
\* backend and unit u, then converting the result back with
\* datetime_obj_converter(convert_to='float', unit=u), returns f.
C18_RoundTrip ==
    (/\ Done("datetime_obj_converter")
     /\ "parsed_from" \in DOMAIN args
     /\ args.unit \in {"s", "ms", "us", "ns"})
        => outcome = Return(PyFloat(args.parsed_from))

\* The target validation of datetime_obj_converter has run on an object of
\* one of the documented input types.
TargetChecked ==
    /\ fn = "datetime_obj_converter"
    /\ "obj_type" \in DOMAIN locals
    /\ locals.obj_type \in DOMAIN documented_conversion_options

\* C19: for each of the nine documented input types, the target validation
\* of datetime_obj_converter accepts convert_to exactly when the docstring's
\* conversion table marks that target 'Yes' in the type's row.
C19_AcceptedAsDocumented ==
    TargetChecked
        => (validated <=>
               args.convert_to.v \in documented_conversion_options[locals.obj_type])

\* C20: parse_float_time with a non-text backend and a unit legal for it
\* needs no format pattern: a call with dt_fmt_str=None returns the parsed
\* date/time object.
C20_NoFormatNeeded ==
    (/\ Done("parse_float_time")
     /\ args.module \in {"datetime", "time", "pandas", "numpy", "arrow"}
     /\ args.dt_fmt_str = PyNone
     /\ args.unit \in {"s", "ns"})
        => outcome.kind = "return"

\* The collection with every value rendered as text.
RenderedCell(cell, fmt) ==
    IF cell.t = "datetime64" THEN Text(cell, fmt)
    ELSE IF cell = PyNone THEN PyStr("None")
    ELSE cell
RenderedCells(cells, fmt) == [i \in DOMAIN cells |-> RenderedCell(cells[i], fmt)]
RenderedAsText(obj, fmt) ==
    CASE obj.t = "DataFrame" ->
            DataFrame([c \in DOMAIN obj.cols |->
                          Column(obj.cols[c].name, RenderedCells(obj.cols[c].cells, fmt))])
      [] obj.t = "Series" -> Series(RenderedCells(obj.cells, fmt))
      [] OTHER -> NdArray(RenderedCells(obj.cells, fmt))

\* C21: a tabular input (DataFrame, Series or ndarray) is accepted with
\* exactly the targets 'float', 'pandas' and 'str', and _to_string applied
\* to a tabular object with a format pattern returns the collection of the
\* same shape with every value rendered as text.
C21_TabularTargetsAndText ==
    /\ (/\ fn = "datetime_obj_converter"
        /\ "obj_type" \in DOMAIN locals
        /\ locals.obj_type \in {"dataframe", "series", "ndarray"})
          => (validated <=> args.convert_to.v \in {"float", "pandas", "str"})
    /\ (/\ Done("_to_string")
        /\ args.dt_obj.t \in {"DataFrame", "Series", "ndarray"}
        /\ args.dt_fmt_str.t = "str")
          => outcome = Return(RenderedAsText(args.dt_obj, args.dt_fmt_str.v))

\* The number of arguments each parser hands to the entry it looks up:
\* parse_time_string adds the unit for 'pandas' only, _float_time_parser
\* always passes the offset and the unit.
GivenToEntry(entry, module) ==
    IF entry.table = "time_str_parsing_dict"
    THEN (IF module = "pandas" THEN 3 ELSE 2)
    ELSE 2

ParserTable(entry) ==
    IF entry.table = "time_str_parsing_dict"
    THEN time_str_parsing_dict
    ELSE floated_time_parsing_dict

\* C22: every entry of time_str_parsing_dict and floated_time_parsing_dict
\* that a parser invokes is invoked with as many arguments as it has
\* parameters.
C22_EntriesBind ==
    fn \in {"parse_time_string", "parse_float_time"}
        => \A i \in DOMAIN calls :
              calls[i].table \in {"time_str_parsing_dict", "floated_time_parsing_dict"}
                 => BindsLambda(ParserTable(calls[i])[calls[i].key],
                                GivenToEntry(calls[i], args.module))

\* The offset in seconds that the fields of a rendered arbitrary time give.
RenderedOffset(fields) ==
    IF Len(fields) = 4
    THEN fields[1] * 86400 + fields[2] * 3600 + fields[3] * 60 + (fields[4] \div 2)
    ELSE fields[1] * 3600 + fields[2] * 60 + (fields[3] \div 2)

\* C23: for every integer offset, negative ones included,
\* _format_arbitrary_time emits the three-field form only when the computed
\* days component is 0, and the rendered fields reconstruct the offset.
C23_DaysNeverDropped ==
    (/\ Done("_format_arbitrary_time")
     /\ args.frac_precision.t = "int"
     /\ IsWhole(args.floated_time))
        => /\ outcome.kind = "return"
           /\ Len(outcome.value.of) = 3 => locals.days = 0
           /\ RenderedOffset(outcome.value.of) = args.floated_time \div 2

\* C24: parse_float_time with module='str' and an origin outside
\* {'arbitrary', 'unix'} ends in an error and returns no value.
C24_UnknownOriginFails ==
    (/\ Done("parse_float_time")
     /\ args.module = "str"
     /\ args.origin \notin {"arbitrary", "unix"})
        => Raised(outcome)

\* C25: datetime_obj_converter given a value whose type name is not a key
\* of conversion_opt_dict fails with ValueError, as for any other
\* unsupported option, and not with KeyError.
C25_UnknownTypeTypedError ==
    (/\ Done("datetime_obj_converter")
     /\ args.datetime_obj.type \notin DOMAIN conversion_opt_dict)
        => RaisedExc(outcome, "ValueError")

\* Whether pd.to_datetime can convert the column.
Convertible(cells) == \A i \in DOMAIN cells : cells[i].t # "str"

\* The table with every convertible column converted and the others kept.
UnifiedFrame(frame, date_unit) ==
    DataFrame([c \in DOMAIN frame.cols |->
        IF Convertible(frame.cols[c].cells)
        THEN Column(frame.cols[c].name,
                    [i \in DOMAIN frame.cols[c].cells |->
                        IF frame.cols[c].cells[i] = PyNone THEN NaT
                        ELSE PdTimestamp(frame.cols[c].cells[i].at, date_unit)])
        ELSE frame.cols[c]])

\* C26: unify_complex_data on a DataFrame returns the table in which every
\* column pd.to_datetime can convert is converted and every column raising
\* ValueError keeps its values, wherever the failing columns are.
C26_MixedColumnsUnified ==
    (Done("unify_complex_data") /\ args.datetime_obj.t = "DataFrame")
        => outcome = Return(UnifiedFrame(args.datetime_obj, args.date_unit))

\* The pairs (a[i], a[j]) with i < j, in lexicographic order of (i, j).
IndexPairs(n) == {p \in (1..n) \X (1..n) : p[1] < p[2]}
Before(q, p) == q[1] < p[1] \/ (q[1] = p[1] /\ q[2] < p[2])
LexPairs(a) ==
    LET ps == IndexPairs(Len(a))
    IN  [k \in 1..Cardinality(ps) |->
            LET p == CHOOSE p \in ps : Cardinality({q \in ps : Before(q, p)}) = k - 1
            IN  <<a[p[1]], a[p[2]]>>]

\* C27: for a numeric 1-D input of length n calc_all_unique_pairs returns
\* the n*(n-1)/2 pairs (a[i], a[j]), i < j, in lexicographic index order,
\* with library='python-default' and with the documented option value
\* library='itertools' alike.
C27_PairsBothLibraries ==
    (/\ Done("calc_all_unique_pairs")
     /\ args.array_like.dtype # "O"
     /\ args.library \in {"python-default", "itertools"})
        => /\ outcome = Return(LexPairs(args.array_like.items))
           /\ 2 * Len(outcome.value)
                 = Len(args.array_like.items) * (Len(args.array_like.items) - 1)

\* The two implementations agree under the keys the table has.
PairsImplementationsAgree ==
    (/\ Done("calc_all_unique_pairs")
     /\ args.array_like.dtype # "O"
     /\ args.library \in {"python-default", "itertools-comb"})
        => /\ outcome = Return(LexPairs(args.array_like.items))
           /\ PythonDefaultPairs(args.array_like.items, 1)
                 = ItertoolsPairs(args.array_like.items)

\* C28: from_json(to_json(b)) = b for every bytes value b; to_json raises
\* TypeError for every object that is not bytes; from_json returns
\* unchanged every dict without a '__class__' key or whose '__class__' is
\* not 'bytes'.
C28_JsonRoundTrip ==
    /\ (Done("from_json") /\ "encoded_from" \in DOMAIN args)
          => outcome = Return(args.encoded_from)
    /\ (Done("to_json") /\ args.python_object.t # "bytes")
          => RaisedExc(outcome, "TypeError")
    /\ (/\ Done("from_json")
        /\ \/ "__class__" \notin DOMAIN args.json_object.items
           \/ args.json_object.items["__class__"] # PyStr("bytes"))
          => outcome = Return(args.json_object)

C28_Witness ==
    /\ Done("from_json")
    /\ "encoded_from" \in DOMAIN args
    /\ args.encoded_from = PyBytes(<<65, 255>>)
    /\ args.json_object.items["__value__"] = PyList(<<PyInt(65), PyInt(255)>>)
    /\ outcome = Return(PyBytes(<<65, 255>>))

\* C30: reorder_objs accepts index_range='all' and any range object; its
\* index-range validation raises TypeError only for values that are
\* neither a range nor the string 'all'.
C30_AllAndRangesAccepted ==
    (/\ Done("reorder_objs")
     /\ outcome = Raise("TypeError", "Index range format must be of range(min, max)."))
        => /\ args.index_range.t # "range"
           /\ args.index_range # PyStr("all")

\* What a call of reorder_objs has done.
Renamed == \E i \in DOMAIN calls : calls[i].op = "rename_objects"
Prompted == \E i \in DOMAIN calls : calls[i].op = "input"
Confirmed ==
    \E i \in DOMAIN calls :
        /\ calls[i] = InputCall("y")
        /\ \A j \in 1..(i - 1) : calls[j].op = "input" /\ calls[j].answer \notin {"y", "n"}

\* C29: reorder_objs renames an object only after its confirmation prompt
\* has been answered with 'y': when the first answer in {'y', 'n'} is 'n'
\* nothing is renamed.
C29_RenameOnlyAfterYes ==
    (fn = "reorder_objs" /\ Renamed) => Confirmed

\* No call of reorder_objs gets as far as its confirmation prompt or as
\* loop_direct_renamer: 'all' is rejected by the validation, a selection
\* with objects always counts as conflicting, and an empty selection makes
\* the dry run return None.
ReorderNeverPrompts ==
    fn = "reorder_objs" => ~Prompted /\ ~Renamed

====
